---- MODULE Spec2Model ----
(***************************************************************************)
(* SupervisorConnection.startObservePortsStatus (src/supervisor-helper.ts): *)
(* the supervising loop that keeps one server-streaming portsStatus         *)
(* subscription open, forwards every 'data' event to the listeners of       *)
(* onDidChangePortStatus, waits one second after the stream ends or fails,  *)
(* and reopens it until the disposable registered on the context clears     *)
(* the run flag.                                                            *)
(*                                                                          *)
(* One step of the model is one run-to-completion piece of the event loop:  *)
(* a public call (startObservePortsStatus, context.dispose, on("update")),  *)
(* a stream event (data, end, error), the continuation of the awaited       *)
(* stream promise (catch/finally up to the timer), or the backoff timer.    *)
(*                                                                          *)
(* The module also covers the rest of the file, each under a specification  *)
(* of its own: getOpenablePorts, the pull-driven sequence built on a        *)
(* private watcher (GenSpec), the filter it applies to a snapshot           *)
(* (FilterSpec), and the onmessage handler of the remote communication      *)
(* channel socket (RelaySpec).                                              *)
(***************************************************************************)
EXTENDS Integers, Sequences, FiniteSets, TLC

\* Bounds of the exploration.
MaxOpens == 2       \* portsStatus calls issued over one behaviour
MaxData == 2        \* 'data' events delivered over one behaviour
MaxListeners == 1   \* registrations on the "update" channel at one time

\* grpc.status.CANCELLED
CANCELLED == 1

VARIABLES
    _startObservePortsStatus, \* line 50: the private started flag
    loops,            \* the async closures of lines 57-84, in creation order:
                      \*   run, stopUpdates (0 = undefined, else a handle),
                      \*   evts, pc (where the closure is suspended), err
    handles,          \* the StreamHandles returned by status.portsStatus
    portsStatusCalls, \* number of status.portsStatus calls issued (line 64)
    consoleErrors,    \* number of console.error calls (line 77)
    context,          \* the DisposableCollection handed to the constructor
    listeners,        \* "update" listeners of onDidChangePortStatus, in order
    received,         \* history: the PortsStatusResponse of every 'data' event
    updates,          \* history: the payload of every emit("update", data)
    deliveries,       \* history: every listener invocation <<listener, data>>
    op,               \* history: the kind of step that led here
    lastCall,         \* history: the latest lifecycle call (start / stop)
    firstStop,        \* history: where the first stop() found the watcher
    timerFires,       \* history: number of times the timer of line 82 fired
    failures,         \* history: errors raised to the loop whose status is
                      \*   not CANCELLED (thrown by portsStatus or rejecting
                      \*   the awaited promise)
    gens,             \* the getOpenablePorts() generators that have run
    ports,            \* line 119: the list handed to the filter
    filtered,         \* line 122: the filter's result
    previous,         \* the result of the loop's preceding iteration
    applied,          \* whether lines 122-137 have run on ports
    handledMessages,  \* window.handledMessages
    windowOpens,      \* history: the window.open calls, <<id, url>>
    relayed,          \* history: number of messages handed to onmessage
    event             \* history: the latest message handed to onmessage

vars == <<_startObservePortsStatus, loops, handles, portsStatusCalls,
          consoleErrors, context, listeners, received, updates, deliveries,
          op, lastCall, firstStop, timerFires, failures, gens, ports,
          filtered, previous, applied, handledMessages, windowOpens, relayed,
          event>>

\* The state of the generators, of one filter application and of the relay.
genvars == <<gens>>
filtervars == <<ports, filtered, previous, applied>>
relayvars == <<handledMessages, windowOpens, relayed, event>>

\* Everything but the history of calls.
progvars == <<_startObservePortsStatus, loops, handles, portsStatusCalls,
              consoleErrors, context, listeners, received, updates,
              deliveries>>

-----------------------------------------------------------------------------
\* Values

\* Line 71: a PortsStatus message (a protobuf object, here a wrapper around
\* its fields) and its plain-object form.
toObject(p) == p.pb

\* PortsStatusResponse values a 'data' event may carry.
Responses ==
    { [portsList |-> <<>>],
      [portsList |-> <<[pb |-> [localPort |-> 3000, served |-> TRUE,
                                onOpen |-> "OPEN_BROWSER"]]>>] }

\* Values the stream may reject with, or portsStatus may throw.
Errors ==
    { [isObject |-> TRUE, hasCode |-> TRUE, code |-> CANCELLED],
      [isObject |-> TRUE, hasCode |-> TRUE, code |-> 14],
      [isObject |-> FALSE, hasCode |-> FALSE, code |-> 0] }

NoError == [isObject |-> FALSE, hasCode |-> FALSE, code |-> 0]

\* Variant of lines 13-15 that does not compare the code with the status.
HasAnyStatus(err, status) == err.isObject /\ err.hasCode

isGRPCErrorStatus(err, status) ==
    err.isObject /\ err.hasCode /\ err.code = status

OpenOutcomes ==
    { [ok |-> TRUE, err |-> NoError] } \cup { [ok |-> FALSE, err |-> e] : e \in Errors }

RemoveListeners == [kind |-> "removeAllListeners", loop |-> 0]
StopLoop(i) == [kind |-> "stopLoop", loop |-> i]

-----------------------------------------------------------------------------
\* Helpers

\* Line 71: getPortsList().map(p => p.toObject())
toObjects(list) == [k \in 1..Len(list) |-> toObject(list[k])]

Active(h) == handles[h].st = "open"

ActiveHandles == { h \in 1..Len(handles) : Active(h) }

-----------------------------------------------------------------------------
\* No message has been handed to the relay's onmessage.
NoEvent == [kind |-> "none", members |-> <<>>]

\* The watcher after its constructor (lines 40-48).
WatcherInit ==
    /\ _startObservePortsStatus = FALSE
    /\ loops = <<>>
    /\ handles = <<>>
    /\ portsStatusCalls = 0
    /\ consoleErrors = 0
    /\ context = <<RemoveListeners>>
    /\ listeners = <<>>
    /\ received = <<>>
    /\ updates = <<>>
    /\ deliveries = <<>>
    /\ op = "init"
    /\ lastCall = "none"
    /\ firstStop = "none"
    /\ timerFires = 0
    /\ failures = 0

\* No generator has run.
GenIdle == gens = <<>>

\* No list is being filtered.
FilterIdle ==
    /\ ports = <<>>
    /\ filtered = <<>>
    /\ previous = <<>>
    /\ applied = FALSE

\* No relay socket is installed.
RelayIdle ==
    /\ handledMessages = <<>>
    /\ windowOpens = <<>>
    /\ relayed = 0
    /\ event = NoEvent

Init == WatcherInit /\ GenIdle /\ FilterIdle /\ RelayIdle

-----------------------------------------------------------------------------
\* startObservePortsStatus, lines 51-93

\* Variants of the guard of lines 52-54: no guard at all; a guard on the run
\* flag instead of the started flag; a guard that holds only while a stream
\* is open.
NeverStarted == FALSE

StartedAndRunning ==
    _startObservePortsStatus /\ \E i \in 1..Len(loops) : loops[i].run

StartedAndStreaming == _startObservePortsStatus /\ ActiveHandles # {}

\* Lines 52-54: the early return of a second call.
AlreadyStarted == _startObservePortsStatus

\* Variant of line 60: while (true).
LoopForever(l) == TRUE

\* Line 60: the run flag read at the top of every iteration.
LoopCondition(l) == l.run

\* Variant of lines 75-82 without the catch clause: a rejection ends the
\* async function after its finally block.
FinallyOnly(l, rejected, err) ==
    [loop |-> [l EXCEPT !.stopUpdates = 0,
                        !.pc = IF rejected THEN "exited" ELSE "awaitTimer",
                        !.err = NoError],
     logged |-> 0]

\* Variant of lines 75-82 that logs every rejection, whatever its status.
CatchFinallyLogAll(l, rejected, err) ==
    [loop |-> [l EXCEPT !.stopUpdates = 0, !.pc = "awaitTimer", !.err = NoError],
     logged |-> IF rejected THEN 1 ELSE 0]

\* Lines 75-82: what follows the try block. A rejection is caught and logged
\* unless it carries the CANCELLED status; finally clears stopUpdates; the
\* closure then suspends on the one-second timer.
CatchFinally(l, rejected, err) ==
    [loop |-> [l EXCEPT !.stopUpdates = 0, !.pc = "awaitTimer", !.err = NoError],
     logged |-> IF rejected /\ ~isGRPCErrorStatus(err, CANCELLED) THEN 1 ELSE 0]

\* Variant of lines 60-84 with the wait of line 82 inside the try block: a
\* failed portsStatus call is followed at once by the next one.
IterateHotRetry(i, l, o) ==
    IF ~LoopCondition(l)
    THEN [loop |-> [l EXCEPT !.pc = "exited"], handles |-> handles,
          opened |-> 0, logged |-> 0]
    ELSE [loop |-> [l EXCEPT !.stopUpdates = Len(handles) + 1,
                             !.evts = Len(handles) + 1,
                             !.pc = "awaitStream"],
          handles |-> Append(handles, [st |-> "open", cancels |-> 0, loop |-> i]),
          opened |-> IF o.ok THEN 1 ELSE 2,
          logged |-> IF o.ok THEN 0 ELSE CatchFinally(l, TRUE, o.err).logged]

\* Lines 60-74, 82: one pass from the loop top to the next suspension, for
\* closure i in state l, with o the outcome of the portsStatus call.
Iterate(i, l, o) ==
    IF ~LoopCondition(l)
    THEN [loop |-> [l EXCEPT !.pc = "exited"], handles |-> handles,
          opened |-> 0, logged |-> 0]
    ELSE IF o.ok
    THEN [loop |-> [l EXCEPT !.stopUpdates = Len(handles) + 1,
                             !.evts = Len(handles) + 1,
                             !.pc = "awaitStream"],
          handles |-> Append(handles, [st |-> "open", cancels |-> 0, loop |-> i]),
          opened |-> 1, logged |-> 0]
    ELSE [loop |-> CatchFinally(l, TRUE, o.err).loop, handles |-> handles,
          opened |-> 1, logged |-> CatchFinally(l, TRUE, o.err).logged]

\* An error whose status is not CANCELLED was thrown by the call of line 64.
Raised(r, o) ==
    IF r.opened > 0 /\ ~o.ok /\ ~(o.err.hasCode /\ o.err.code = CANCELLED)
    THEN 1 ELSE 0

NewLoop ==
    [run |-> TRUE, stopUpdates |-> 0, evts |-> 0, pc |-> "start", err |-> NoError]

startObservePortsStatus ==
    /\ op' = "start"
    /\ lastCall' = "start"
    /\ UNCHANGED firstStop
    /\ UNCHANGED <<timerFires, genvars, filtervars, relayvars>>
    /\ IF AlreadyStarted
       THEN UNCHANGED <<progvars, failures>>
       ELSE /\ portsStatusCalls < MaxOpens
            /\ \E o \in OpenOutcomes :
                 LET i == Len(loops) + 1
                     r == Iterate(i, NewLoop, o)
                 IN /\ _startObservePortsStatus' = TRUE
                    /\ loops' = Append(loops, r.loop)
                    /\ handles' = r.handles
                    /\ portsStatusCalls' = portsStatusCalls + r.opened
                    /\ consoleErrors' = consoleErrors + r.logged
                    /\ context' = Append(context, StopLoop(i))
                    /\ failures' = failures + Raised(r, o)
            /\ UNCHANGED <<listeners, received, updates, deliveries>>

-----------------------------------------------------------------------------
\* context.dispose(): the watcher's stop()

\* evts.cancel(), bound at line 65 and called at line 89.
Cancel(hs, h) ==
    [hs EXCEPT ![h].cancels = @ + 1,
               ![h].st = IF @ = "open" THEN "cancelled" ELSE @]

\* Variant of lines 86-91 that clears the run flag and cancels nothing.
DisposeFlagOnly(d, st) ==
    IF d.kind = "removeAllListeners"
    THEN [st EXCEPT !.listeners = <<>>]
    ELSE [st EXCEPT !.loops[d.loop].run = FALSE]

\* One registered disposable: lines 45-47 (removeAllListeners) or lines 86-91
\* (clear the run flag; cancel when stopUpdates is set).
DisposeOne(d, st) ==
    IF d.kind = "removeAllListeners"
    THEN [st EXCEPT !.listeners = <<>>]
    ELSE [st EXCEPT !.loops[d.loop].run = FALSE,
                    !.handles = IF st.loops[d.loop].stopUpdates # 0
                                THEN Cancel(@, st.loops[d.loop].stopUpdates)
                                ELSE @]

RECURSIVE DisposeAll(_, _)
DisposeAll(ctx, st) ==
    IF ctx = <<>> THEN st
    ELSE DisposeAll(SubSeq(ctx, 1, Len(ctx) - 1), DisposeOne(ctx[Len(ctx)], st))

\* Variant in which the disposables stay registered after being disposed.
ContextDisposeKeep(st) == DisposeAll(st.context, st)

\* The collection pops and disposes every registered disposable, last first,
\* and is empty afterwards.
ContextDispose(st) == [DisposeAll(st.context, st) EXCEPT !.context = <<>>]

Stop ==
    /\ op' = "stop"
    /\ UNCHANGED <<timerFires, failures, genvars, filtervars, relayvars>>
    /\ lastCall' = "stop"
    /\ firstStop' = IF firstStop # "none" THEN firstStop
                    ELSE IF _startObservePortsStatus THEN "started" ELSE "idle"
    /\ LET st == ContextDispose([context |-> context, loops |-> loops,
                                 handles |-> handles, listeners |-> listeners])
       IN /\ context' = st.context
          /\ loops' = st.loops
          /\ handles' = st.handles
          /\ listeners' = st.listeners
    /\ UNCHANGED <<_startObservePortsStatus, portsStatusCalls, consoleErrors,
                   received, updates, deliveries>>

-----------------------------------------------------------------------------
\* onDidChangePortStatus.on("update", fn), as at lines 114-116
\* Every registration is a fresh function, named by its place in the list.
AddListener ==
    /\ op' = "event"
    /\ UNCHANGED <<timerFires, failures, genvars, filtervars, relayvars>>
    /\ Len(listeners) < MaxListeners
    /\ listeners' = Append(listeners, Len(listeners) + 1)
    /\ UNCHANGED <<_startObservePortsStatus, loops, handles, portsStatusCalls,
                   consoleErrors, context, received, updates, deliveries, lastCall, firstStop>>

-----------------------------------------------------------------------------
\* Stream events

Live(h) == handles[h].st \in {"open", "cancelled"}

\* Variant of lines 70-73 that skips a list equal to the last one emitted.
DataHandlerDistinct(update) ==
    IF updates # <<>> /\ updates[Len(updates)] = toObjects(update.portsList)
    THEN [updates |-> updates, deliveries |-> deliveries]
    ELSE [updates |-> Append(updates, toObjects(update.portsList)),
          deliveries |-> deliveries \o
              [k \in 1..Len(listeners) |->
                  <<listeners[k], toObjects(update.portsList)>>]]

\* Lines 70-73: the 'data' handler converts the list and emits it; emit calls
\* every listener registered at that moment, in registration order.
DataHandler(update) ==
    [updates |-> Append(updates, toObjects(update.portsList)),
     deliveries |-> deliveries \o
         [k \in 1..Len(listeners) |->
             <<listeners[k], toObjects(update.portsList)>>]]

OnData ==
    /\ op' = "event"
    /\ UNCHANGED <<timerFires, failures, genvars, filtervars, relayvars>>
    /\ Len(received) < MaxData
    /\ \E h \in 1..Len(handles), update \in Responses :
         /\ Live(h)
         /\ received' = Append(received, update)
         /\ updates' = DataHandler(update).updates
         /\ deliveries' = DataHandler(update).deliveries
    /\ UNCHANGED <<_startObservePortsStatus, loops, handles, portsStatusCalls,
                   consoleErrors, context, listeners, lastCall, firstStop>>

\* Lines 67-69: 'end' resolves and 'error' rejects the awaited promise; only
\* the first settlement counts.
Settle(ls, h, pc, err) ==
    IF ls[handles[h].loop].pc = "awaitStream" /\ ls[handles[h].loop].evts = h
    THEN [ls EXCEPT ![handles[h].loop].pc = pc, ![handles[h].loop].err = err]
    ELSE ls

OnEnd ==
    /\ op' = "event"
    /\ UNCHANGED <<timerFires, failures, genvars, filtervars, relayvars>>
    /\ \E h \in 1..Len(handles) :
         /\ Live(h)
         /\ handles' = [handles EXCEPT ![h].st = "ended"]
         /\ loops' = Settle(loops, h, "resolved", NoError)
    /\ UNCHANGED <<_startObservePortsStatus, portsStatusCalls, consoleErrors,
                   context, listeners, received, updates, deliveries, lastCall, firstStop>>

OnError ==
    /\ op' = "event"
    /\ UNCHANGED <<timerFires, genvars, filtervars, relayvars>>
    /\ \E h \in 1..Len(handles), e \in Errors :
         /\ Live(h)
         /\ handles' = [handles EXCEPT ![h].st = "errored"]
         /\ loops' = Settle(loops, h, "rejected", e)
         /\ failures' = failures +
                IF loops' # loops /\ ~(e.hasCode /\ e.code = CANCELLED)
                THEN 1 ELSE 0
    /\ UNCHANGED <<_startObservePortsStatus, portsStatusCalls, consoleErrors,
                   context, listeners, received, updates, deliveries, lastCall, firstStop>>

-----------------------------------------------------------------------------
\* The closure's continuations

\* Lines 75-82, run when the awaited stream promise has settled.
Resume ==
    /\ op' = "event"
    /\ UNCHANGED <<timerFires, failures, genvars, filtervars, relayvars>>
    /\ \E i \in 1..Len(loops) :
         /\ loops[i].pc \in {"resolved", "rejected"}
         /\ LET r == CatchFinally(loops[i], loops[i].pc = "rejected", loops[i].err)
            IN /\ loops' = [loops EXCEPT ![i] = r.loop]
               /\ consoleErrors' = consoleErrors + r.logged
    /\ UNCHANGED <<_startObservePortsStatus, handles, portsStatusCalls, context,
                   listeners, received, updates, deliveries, lastCall, firstStop>>

\* Line 82 elapsed: back to the loop top (line 60).
BackoffTimer ==
    /\ op' = "event"
    /\ timerFires' = timerFires + 1
    /\ UNCHANGED <<genvars, filtervars, relayvars>>
    /\ \E i \in 1..Len(loops), o \in OpenOutcomes :
         /\ loops[i].pc = "awaitTimer"
         /\ LoopCondition(loops[i]) => portsStatusCalls < MaxOpens
         /\ LET r == Iterate(i, loops[i], o)
            IN /\ loops' = [loops EXCEPT ![i] = r.loop]
               /\ handles' = r.handles
               /\ portsStatusCalls' = portsStatusCalls + r.opened
               /\ consoleErrors' = consoleErrors + r.logged
               /\ failures' = failures + Raised(r, o)
    /\ UNCHANGED <<_startObservePortsStatus, context, listeners, received,
                   updates, deliveries, lastCall, firstStop>>

-----------------------------------------------------------------------------
Next ==
    \/ startObservePortsStatus
    \/ Stop
    \/ AddListener
    \/ OnData
    \/ OnEnd
    \/ OnError
    \/ Resume
    \/ BackoffTimer

Spec == Init /\ [][Next]_vars

\* The timer of line 82 fires and a settled promise's continuation runs.
LiveSpec == Spec /\ WF_vars(Resume) /\ WF_vars(BackoffTimer)

-----------------------------------------------------------------------------

\* getOpenablePorts, lines 122-137: the filter applied to one snapshot

MaxPorts == 2       \* entries of a filtered snapshot

\* PortsStatus.OnOpenAction: the five values the switch names, and one it
\* does not.
OnOpenActions ==
    {"OPEN_BROWSER", "OPEN_PREVIEW", "NOTIFY", "IGNORE", "NOTIFY_PRIVATE",
     "UNRECOGNIZED"}

\* The plain-object entries of a snapshot.
PortObjects == [localPort : {3000}, served : BOOLEAN, onOpen : OnOpenActions]

Snapshots == UNION { [1..n -> PortObjects] : n \in 0..MaxPorts }

\* Results the preceding iteration of the loop of line 118 may have yielded.
PreviousResults ==
    { <<>>, <<[localPort |-> 3000, served |-> TRUE, onOpen |-> "OPEN_BROWSER"]>> }

\* Variant of lines 123-136 whose default case returns false.
KeepRecognized(port) ==
    IF ~port.served THEN FALSE
    ELSE CASE port.onOpen = "NOTIFY_PRIVATE" -> FALSE
           [] port.onOpen = "IGNORE" -> FALSE
           [] port.onOpen = "OPEN_BROWSER" -> TRUE
           [] port.onOpen = "OPEN_PREVIEW" -> TRUE
           [] port.onOpen = "NOTIFY" -> TRUE
           [] OTHER -> FALSE

\* Lines 123-136: the callback of ports.filter.
Keep(port) ==
    IF ~port.served THEN FALSE
    ELSE CASE port.onOpen = "NOTIFY_PRIVATE" -> FALSE
           [] port.onOpen = "IGNORE" -> FALSE
           [] port.onOpen = "OPEN_BROWSER" -> TRUE
           [] port.onOpen = "OPEN_PREVIEW" -> TRUE
           [] port.onOpen = "NOTIFY" -> TRUE
           [] OTHER -> TRUE

\* Array.prototype.filter with the callback of lines 123-136: a new list of
\* the kept entries, visited front to back.
RECURSIVE Filter(_)
Filter(list) ==
    IF list = <<>> THEN <<>>
    ELSE IF Keep(Head(list)) THEN <<Head(list)>> \o Filter(Tail(list))
    ELSE Filter(Tail(list))

\* Variant of line 122 that yields only the entries the preceding iteration
\* did not yield.
RECURSIVE FilterNewOnly(_, _)
FilterNewOnly(prev, list) ==
    IF list = <<>> THEN <<>>
    ELSE IF Keep(Head(list)) /\ \A k \in 1..Len(prev) : prev[k] # Head(list)
    THEN <<Head(list)>> \o FilterNewOnly(prev, Tail(list))
    ELSE FilterNewOnly(prev, Tail(list))

\* Line 122 inside the loop of line 118: `filtered` of this iteration, with
\* prev the `filtered` of the preceding one (a const of that iteration's
\* block, which this iteration does not read).
FilterSnapshot(prev, list) == Filter(list)

FilterInit ==
    /\ WatcherInit
    /\ GenIdle
    /\ RelayIdle
    /\ ports \in Snapshots
    /\ previous \in PreviousResults
    /\ filtered = <<>>
    /\ applied = FALSE

FilterApply ==
    /\ ~applied
    /\ filtered' = FilterSnapshot(previous, ports)
    /\ applied' = TRUE
    /\ UNCHANGED <<_startObservePortsStatus, loops, handles, portsStatusCalls,
                   consoleErrors, context, listeners, received, updates,
                   deliveries, op, lastCall, firstStop, timerFires, failures,
                   genvars, ports, previous, relayvars>>

FilterNext == FilterApply

FilterSpec == FilterInit /\ [][FilterNext]_vars

-----------------------------------------------------------------------------
\* getOpenablePorts, lines 109-141: the pull-driven sequence

MaxSeqs == 2        \* getOpenablePorts() generators started over one behaviour

\* PortsStatusResponse values a 'data' event may carry to a generator's
\* watcher (their filtered forms differ).
GenResponses ==
    { [portsList |-> <<[pb |-> [localPort |-> 3000, served |-> TRUE,
                                onOpen |-> "OPEN_BROWSER"]]>>],
      [portsList |-> <<[pb |-> [localPort |-> 3000, served |-> TRUE,
                                onOpen |-> "IGNORE"]],
                       [pb |-> [localPort |-> 3000, served |-> TRUE,
                                onOpen |-> "NOTIFY"]]>>] }

\* Lines 110-121 for the generator whose watcher's closure is loop i: a
\* fresh watcher on a fresh DisposableCollection (its RemoveListeners
\* disposable from the constructor, its stop disposable from start()), the
\* bridge listener of lines 114-116 on its "update" channel, and the first
\* once("portsUpdated") registered.
\*   pc: "awaiting" (line 119, once-listener registered), "resolved" (the
\*       promise of line 119 resolved, continuation pending), "yielded"
\*       (suspended at line 139), "closed" (return() called)
\*   raw, pullAt, yielded: history of the snapshots the bridge was called
\*       with, of Len(raw) at each pull, and of the values yielded
NewGen(i) ==
    [pc |-> "awaiting", loop |-> i,
     context |-> <<RemoveListeners, StopLoop(i)>>, listeners |-> <<1>>,
     ports |-> <<>>, raw |-> <<>>, pullAt |-> <<0>>, yielded |-> <<>>]

\* Number of snapshots emitted so far by the watchers of generators 1..k.
RECURSIVE Emitted(_)
Emitted(k) == IF k = 0 THEN 0 ELSE Len(gens[k].raw) + Emitted(k - 1)

\* The first next(): lines 110-121. The watcher is new, so the guard of lines
\* 52-54 does not hold and start() runs the loop up to its first suspension.
GenFirstPull ==
    /\ Len(gens) < MaxSeqs
    /\ portsStatusCalls < MaxOpens
    /\ \E o \in OpenOutcomes :
         LET i == Len(loops) + 1
             r == Iterate(i, NewLoop, o)
         IN /\ loops' = Append(loops, r.loop)
            /\ handles' = r.handles
            /\ portsStatusCalls' = portsStatusCalls + r.opened
            /\ consoleErrors' = consoleErrors + r.logged
            /\ failures' = failures + Raised(r, o)
            /\ gens' = Append(gens, NewGen(i))
    /\ UNCHANGED <<_startObservePortsStatus, context, listeners, received,
                   updates, deliveries, op, lastCall, firstStop, timerFires,
                   filtervars, relayvars>>

\* A later next(), made when the previous one has been answered: the loop
\* of line 118 comes round to lines 119-121 and registers once() again.
GenPull ==
    /\ \E k \in 1..Len(gens) :
         /\ gens[k].pc = "yielded"
         /\ gens' = [gens EXCEPT ![k].pc = "awaiting",
                                 ![k].pullAt = Append(@, Len(gens[k].raw))]
    /\ UNCHANGED <<_startObservePortsStatus, loops, handles, portsStatusCalls,
                   consoleErrors, context, listeners, received, updates,
                   deliveries, op, lastCall, firstStop, timerFires, failures,
                   filtervars, relayvars>>

\* Variant of lines 119-121 with on() in place of once() and the snapshot
\* kept in a variable: a snapshot that arrives before the continuation runs
\* replaces the one that resolved the promise.
DeliverLatest(g, data) ==
    IF g.pc \in {"awaiting", "resolved"}
    THEN [g EXCEPT !.pc = "resolved", !.ports = data]
    ELSE g

\* Lines 115, 120: internalEventEmitter.emit("portsUpdated", ports) calls the
\* once-listener if one is registered, which resolves the awaited promise and
\* is removed; with none registered the snapshot goes nowhere.
Deliver(g, data) ==
    IF g.pc = "awaiting"
    THEN [g EXCEPT !.pc = "resolved", !.ports = data]
    ELSE g

\* A 'data' event on a stream of a generator's watcher: lines 70-73, then the
\* bridge listener of lines 114-116 if it is still registered.
GenData ==
    /\ Emitted(Len(gens)) < MaxData
    /\ \E h \in 1..Len(handles), update \in GenResponses, k \in 1..Len(gens) :
         /\ Live(h)
         /\ gens[k].loop = handles[h].loop
         /\ gens' = [gens EXCEPT ![k] =
               IF gens[k].listeners = <<>> THEN @
               ELSE [Deliver(@, toObjects(update.portsList))
                        EXCEPT !.raw = Append(@, toObjects(update.portsList))]]
    /\ UNCHANGED <<_startObservePortsStatus, loops, handles, portsStatusCalls,
                   consoleErrors, context, listeners, received, updates,
                   deliveries, op, lastCall, firstStop, timerFires, failures,
                   filtervars, relayvars>>

\* Lines 122-139: the continuation of the resolved promise filters the
\* snapshot and yields the result, which answers the outstanding next().
GenResume ==
    /\ \E k \in 1..Len(gens) :
         /\ gens[k].pc = "resolved"
         /\ gens' = [gens EXCEPT
               ![k].pc = "yielded",
               ![k].yielded = Append(@,
                   FilterSnapshot(IF @ = <<>> THEN <<>> ELSE @[Len(@)],
                                  gens[k].ports))]
    /\ UNCHANGED <<_startObservePortsStatus, loops, handles, portsStatusCalls,
                   consoleErrors, context, listeners, received, updates,
                   deliveries, op, lastCall, firstStop, timerFires, failures,
                   filtervars, relayvars>>

\* Variant of lines 118-140 wrapped in try { ... } finally { dispose }: ending
\* the iteration disposes the watcher's collection.
OnReturnDispose(st) == ContextDispose(st)

\* return() on a generator suspended at line 139: the function has no
\* try/finally, so nothing of its body runs.
OnReturn(st) == st

\* The consumer ends the iteration (return(), or leaving a for-await loop).
GenReturn ==
    /\ \E k \in 1..Len(gens) :
         /\ gens[k].pc = "yielded"
         /\ LET st == OnReturn([context |-> gens[k].context, loops |-> loops,
                                handles |-> handles,
                                listeners |-> gens[k].listeners])
            IN /\ loops' = st.loops
               /\ handles' = st.handles
               /\ gens' = [gens EXCEPT ![k].pc = "closed",
                                       ![k].context = st.context,
                                       ![k].listeners = st.listeners]
    /\ UNCHANGED <<_startObservePortsStatus, portsStatusCalls, consoleErrors,
                   context, listeners, received, updates, deliveries, op,
                   lastCall, firstStop, timerFires, failures, filtervars,
                   relayvars>>

GenNext ==
    \/ GenFirstPull
    \/ GenPull
    \/ GenData
    \/ GenResume
    \/ GenReturn
    \/ OnEnd
    \/ OnError
    \/ Resume
    \/ BackoffTimer

GenSpec == Init /\ [][GenNext]_vars

\* The continuations run, the timers fire, and a consumer that has been
\* answered pulls again (or ends the iteration).
GenLiveSpec ==
    /\ GenSpec
    /\ WF_vars(GenResume)
    /\ WF_vars(GenPull)
    /\ WF_vars(Resume)
    /\ WF_vars(BackoffTimer)

-----------------------------------------------------------------------------
\* initiateRemoteCommunicationChannelSocket, lines 167-187: socket.onmessage

MaxMessages == 3    \* messages handed to onmessage over one behaviour

RelayIds == {"a", "b"}

\* The members of the JSON object texts a message may carry, in the order
\* they are written: with or without an id, with the id written twice, with
\* action "openUrl" or another one, and the text "{}".
RelayTexts ==
    { <<<<"id", i>>, <<"action", a>>, <<"data", "url">>>> :
          i \in RelayIds, a \in {"openUrl", "other"} }
    \cup { <<<<"action", a>>, <<"data", "url">>>> : a \in {"openUrl", "other"} }
    \cup { <<<<"id", "a">>, <<"action", "openUrl">>, <<"data", "url">>, <<"id", "b">>>>,
           <<>> }

\* event.data: the empty string, a text JSON.parse throws on (or parses to
\* null), or an object text.
RelayEvents ==
    { [kind |-> "empty", members |-> <<>>], [kind |-> "malformed", members |-> <<>>] }
    \cup { [kind |-> "json", members |-> t] : t \in RelayTexts }

\* Reading a property of the parsed object: the value of the last member
\* written with that key, undefined when there is none.
RECURSIVE Get(_, _)
Get(members, key) ==
    IF members = <<>> THEN "undefined"
    ELSE IF members[Len(members)][1] = key THEN members[Len(members)][2]
    ELSE Get(SubSeq(members, 1, Len(members) - 1), key)

\* Line 173: JSON.parse(event.data), as far as lines 174-185 read the result.
JSONparse(members) ==
    [id |-> Get(members, "id"), action |-> Get(members, "action"),
     data |-> Get(members, "data")]

\* Line 174: window.handledMessages.includes(id)
Includes(list, id) == \E k \in 1..Len(list) : list[k] = id

\* Variant of lines 168-185 without the check of lines 174-177.
HandleMessageNoCheck(st, e) ==
    IF e.kind # "json" THEN st
    ELSE [handledMessages |-> Append(st.handledMessages, JSONparse(e.members).id),
          windowOpens |->
              IF JSONparse(e.members).action = "openUrl"
              THEN Append(st.windowOpens,
                          <<JSONparse(e.members).id, JSONparse(e.members).data>>)
              ELSE st.windowOpens]

\* Lines 168-185: the handler returns at once on empty data (168-171), is
\* ended by the exception of line 173 or 174 on a text that is not an object,
\* returns on an id it has seen (174-177), and otherwise opens the url when
\* the action is "openUrl" (179-183) and records the id (185).
HandleMessage(st, e) ==
    IF e.kind # "json" THEN st
    ELSE IF Includes(st.handledMessages, JSONparse(e.members).id) THEN st
    ELSE [handledMessages |-> Append(st.handledMessages, JSONparse(e.members).id),
          windowOpens |->
              IF JSONparse(e.members).action = "openUrl"
              THEN Append(st.windowOpens,
                          <<JSONparse(e.members).id, JSONparse(e.members).data>>)
              ELSE st.windowOpens]

\* The socket is installed on a window whose seen-list is empty or holds an
\* id recorded through an earlier socket.
RelayInit ==
    /\ WatcherInit
    /\ GenIdle
    /\ FilterIdle
    /\ handledMessages \in { <<>> } \cup { <<i>> : i \in RelayIds }
    /\ windowOpens = <<>>
    /\ relayed = 0
    /\ event = NoEvent

OnMessage ==
    /\ relayed < MaxMessages
    /\ \E e \in RelayEvents :
         LET st == HandleMessage([handledMessages |-> handledMessages,
                                  windowOpens |-> windowOpens], e)
         IN /\ event' = e
            /\ handledMessages' = st.handledMessages
            /\ windowOpens' = st.windowOpens
    /\ relayed' = relayed + 1
    /\ UNCHANGED <<_startObservePortsStatus, loops, handles, portsStatusCalls,
                   consoleErrors, context, listeners, received, updates,
                   deliveries, op, lastCall, firstStop, timerFires, failures,
                   genvars, filtervars>>

RelayNext == OnMessage

RelaySpec == RelayInit /\ [][RelayNext]_vars

-----------------------------------------------------------------------------
\* Scheduling of a stopped watcher

\* A cancelled subscription reports its 'end' or 'error'.
CancelledReports ==
    /\ OnEnd \/ OnError
    /\ \E h \in 1..Len(handles) :
         handles[h].st = "cancelled" /\ handles'[h].st # "cancelled"

\* LiveSpec for a server that answers a cancel.
StopLiveSpec == LiveSpec /\ WF_vars(CancelledReports)

-----------------------------------------------------------------------------
\* Properties

StopCalled == firstStop # "none"

\* A step that changes the state is a start() or a stop() call exactly when it
\* leaves op at "start" or "stop".
IsStart == op' = "start"
IsStop == op' = "stop"

StopRegistrations ==
    Cardinality({ k \in 1..Len(context) : context[k].kind = "stopLoop" })

Payload(update) == toObjects(update.portsList)

\* C1 (as claimed): once stop() has returned no listener is called again, and
\* stop() leaves the "update" channel without listeners.
C1_CleanStop ==
    [][ /\ StopCalled => deliveries' = deliveries
        /\ (IsStop /\ ~StopCalled) => listeners' = <<>> ]_vars

\* C2: once the run flag of a started watcher has been cleared by stop(), in
\* whatever state the loop was suspended, no portsStatus call is issued.
C2_NoReconnectAfterStop ==
    [][ (\E i \in 1..Len(loops) : ~loops[i].run)
            => portsStatusCalls' = portsStatusCalls ]_vars

C2_Witness ==
    /\ Len(loops) = 1
    /\ ~loops[1].run
    /\ loops[1].pc = "exited"
    /\ portsStatusCalls = 1

\* C3: at most one StreamHandle is open (not ended, errored or cancelled).
C3_AtMostOneActive == Cardinality(ActiveHandles) <= 1

C3_Witness ==
    /\ Len(handles) = 2
    /\ handles[1].st \in {"ended", "errored"}
    /\ Active(2)

\* C4 (as claimed): after a stop() made before the first start(), no
\* subscription is opened and no snapshot is emitted.
C4_StopWhileIdle ==
    [][ firstStop = "idle"
            => /\ portsStatusCalls' = portsStatusCalls
               /\ updates' = updates ]_vars

\* A loop exists (start() was called) and its run flag has been cleared (a
\* later stop() ran its disposable).
StartedThenStopped == \E i \in 1..Len(loops) : ~loops[i].run

\* C5: a start() made after a start() and a later stop() changes nothing: no
\* new loop, no portsStatus call, no emission.
C5_NoRestart == [][ (IsStart /\ StartedThenStopped) => UNCHANGED progvars ]_vars

\* The latest step is a start() and the loop has been stopped before it.
C5_Witness ==
    /\ op = "start"
    /\ firstStop = "started"
    /\ Len(loops) = 1
    /\ ~loops[1].run

C7_StopIdempotent ==
    /\ [][ (IsStop /\ lastCall = "stop") => UNCHANGED progvars ]_vars
    /\ [](\A h \in 1..Len(handles) : handles[h].cancels <= 1)

\* The latest step is a stop() made after the stopped loop has exited: the
\* stop() that cancelled the stream came before it.
C7_Witness ==
    /\ op = "stop"
    /\ firstStop = "started"
    /\ Len(loops) = 1
    /\ loops[1].pc = "exited"
    /\ \E h \in 1..Len(handles) : handles[h].cancels = 1

\* C8 (as claimed): a stop() made while a subscription is open cancels that
\* subscription, and no other, within the call; a stop() made while no
\* subscription is open issues no cancel.
C8_CancelOnlyWhenActive ==
    [][ IsStop =>
          /\ \A h \in ActiveHandles :
               /\ handles'[h].cancels = handles[h].cancels + 1
               /\ handles'[h].st = "cancelled"
          /\ \A h \in (1..Len(handles)) \ ActiveHandles :
               handles'[h].cancels = handles[h].cancels ]_vars

\* The loop whose awaited stream promise has settled while its run flag is
\* set: lines 75-81 have not run yet and stopUpdates still holds the handle.
SettledNotResumed ==
    { i \in 1..Len(loops) : loops[i].run /\ loops[i].pc \in {"resolved", "rejected"} }

\* C8 (amended): a stop() made while a subscription is open cancels that
\* subscription, and no other, within the call; a stop() made while the loop
\* waits on the backoff timer, or after it was stopped, cancels nothing; the
\* first stop() made between the end or error of a stream and the loop's
\* finally block calls cancel once on that finished handle.
C8_SynchronousCancel ==
    [][ IsStop =>
          /\ \A h \in ActiveHandles :
               /\ handles'[h].cancels = handles[h].cancels + 1
               /\ handles'[h].st = "cancelled"
          /\ ActiveHandles # {} =>
               \A h \in (1..Len(handles)) \ ActiveHandles : handles'[h] = handles[h]
          /\ (ActiveHandles = {} /\ SettledNotResumed = {}) => handles' = handles
          /\ \A i \in SettledNotResumed :
               /\ handles'[loops[i].evts].cancels = handles[loops[i].evts].cancels + 1
               /\ handles'[loops[i].evts].st = handles[loops[i].evts].st ]_vars

C8_Witness ==
    /\ op = "stop"
    /\ Len(handles) = 1
    /\ handles[1].st = "cancelled"
    /\ handles[1].cancels = 1

\* C9: the emitted payloads are the received snapshots, one for one and in
\* arrival order, and each is handed exactly once, at once, to every listener
\* registered when it arrives.
C9_ForwardedInOrder ==
    /\ [](updates = [k \in 1..Len(received) |-> Payload(received[k])])
    /\ [][ received' # received =>
             deliveries' = deliveries \o
                 [k \in 1..Len(listeners) |->
                     <<listeners[k], Payload(received'[Len(received')])>>] ]_vars

C9_Witness ==
    /\ Len(received) = 2
    /\ received[1] # received[2]
    /\ Len(handles) = 2
    /\ loops[1].run
    /\ firstStop = "none"
    /\ Len(deliveries) = 2

\* C10: while the run flag is set, a settled stream promise or a failed open
\* is followed by the next portsStatus call (for every call the bound admits).
C10_ReconnectLiveness ==
    \A n \in 1..(MaxOpens - 1) :
        ( /\ Len(loops) = 1
          /\ loops[1].run
          /\ loops[1].pc \in {"resolved", "rejected", "awaitTimer"}
          /\ portsStatusCalls = n )
        ~> ( (Len(loops) = 1 /\ ~loops[1].run) \/ portsStatusCalls = n + 1 )

C10_Witness ==
    /\ portsStatusCalls = 2
    /\ Len(loops) = 1
    /\ loops[1].run
    /\ Len(handles) = 1
    /\ handles[1].st = "errored"
    /\ loops[1].pc = "awaitTimer"


\* C11: the first portsStatus call is made by start(); every later one is made
\* by the continuation of the backoff timer, one call per firing, so the
\* number of calls is one more than the number of firings that found the run
\* flag set (N failed opens in a row: N firings, N + 1 calls).
C11_BackoffSpacing ==
    /\ [](/\ Len(loops) = 0 => portsStatusCalls = 0
          /\ Len(loops) = 1 =>
               portsStatusCalls =
                   1 + timerFires - (IF loops[1].pc = "exited" THEN 1 ELSE 0))
    /\ [][ portsStatusCalls' # portsStatusCalls =>
             /\ portsStatusCalls' = portsStatusCalls + 1
             /\ \/ IsStart /\ Len(loops') = Len(loops) + 1
                \/ /\ timerFires' = timerFires + 1
                   /\ \E i \in 1..Len(loops) :
                        loops[i].pc = "awaitTimer" /\ loops'[i].pc # "exited" ]_vars

\* The first open failed, the timer fired once and the second open succeeded.
C11_Witness ==
    /\ Len(loops) = 1
    /\ portsStatusCalls = 2
    /\ timerFires = 1
    /\ Len(handles) = 1
    /\ handles[1].st = "open"

\* The error carries the CANCELLED status.
IsCancelled(e) == e.hasCode /\ e.code = CANCELLED

\* The loops whose awaited stream promise was rejected with CANCELLED and
\* whose continuation has not run yet.
CancelledPending ==
    { i \in 1..Len(loops) : loops[i].pc = "rejected" /\ IsCancelled(loops[i].err) }

\* C12 (as claimed): a loop whose subscription failed with the CANCELLED
\* status stops: it does not go on to the backoff wait.
C12_CancelledStops ==
    [][ \A i \in CancelledPending : loops'[i].pc \in {"rejected", "exited"} ]_vars

\* C12 (amended): a failure with the CANCELLED status is not logged and opens
\* nothing by itself, but the loop goes on to the backoff wait like after any
\* other failure; when the timer fires the loop exits if its run flag has been
\* cleared and issues the next portsStatus call if it is still set.
C12_CancelledBackoff ==
    /\ [][ \A i \in CancelledPending :
             loops'[i].pc # "rejected" =>
               /\ loops'[i].pc = "awaitTimer"
               /\ loops'[i].run = loops[i].run
               /\ consoleErrors' = consoleErrors
               /\ portsStatusCalls' = portsStatusCalls ]_vars
    /\ [][ (Len(loops) = 1 /\ timerFires' # timerFires) =>
             IF loops[1].run
             THEN portsStatusCalls' = portsStatusCalls + 1
             ELSE loops'[1].pc = "exited" /\ portsStatusCalls' = portsStatusCalls ]_vars

\* The first subscription failed with CANCELLED (it errored and nothing was
\* logged or counted as another failure) while the run flag was set, and the
\* loop has opened a second one.
C12_Witness ==
    /\ Len(loops) = 1
    /\ loops[1].run
    /\ Len(handles) = 2
    /\ handles[1].st = "errored"
    /\ failures = 0
    /\ consoleErrors = 0
    /\ Active(2)

\* The loops whose awaited stream promise was rejected with another status
\* (or with a value that has none) and whose continuation has not run yet.
OtherPending ==
    { i \in 1..Len(loops) : loops[i].pc = "rejected" /\ ~IsCancelled(loops[i].err) }

\* C13: every error whose status is not CANCELLED is logged exactly once, when
\* the loop's catch clause runs, and no other error is logged; an error never
\* ends the loop (a loop that has exited had its run flag cleared) but leads
\* it to the backoff wait before the next attempt; start() completes (flag
\* set, stop disposable registered) also when its portsStatus call throws.
C13_ErrorAbsorption ==
    /\ [](consoleErrors + Cardinality(OtherPending) = failures)
    /\ [](\A i \in 1..Len(loops) : loops[i].pc = "exited" => ~loops[i].run)
    /\ [][ \A i \in 1..Len(loops) :
             (loops[i].pc = "rejected" /\ loops'[i].pc # "rejected")
                 => loops'[i].pc = "awaitTimer" ]_vars
    /\ [][ (IsStart /\ loops' # loops) =>
             /\ _startObservePortsStatus'
             /\ context' = Append(context, StopLoop(Len(loops')))
             /\ loops'[Len(loops')].pc \in {"awaitStream", "awaitTimer"} ]_vars

\* The portsStatus call of start() threw an error that is not CANCELLED: it
\* was logged once, the loop waited and the next call opened a subscription.
C13_Witness ==
    /\ Len(loops) = 1
    /\ loops[1].run
    /\ portsStatusCalls = 2
    /\ Len(handles) = 1
    /\ Active(1)
    /\ failures = 1
    /\ consoleErrors = 1

\* C19: once stop() has cleared the run flag of a started loop, the first
\* firing of the backoff timer ends the loop (so it waits at most once more),
\* and, the cancelled subscription reporting its end or error, the loop does
\* exit, wherever stop() found it.
C19_TerminatesAfterStop ==
    /\ [][ (Len(loops) = 1 /\ ~loops[1].run /\ timerFires' # timerFires)
              => loops'[1].pc = "exited" /\ portsStatusCalls' = portsStatusCalls ]_vars
    /\ (Len(loops) = 1 /\ ~loops[1].run) ~> (Len(loops) = 1 /\ loops[1].pc = "exited")

\* stop() cancelled the open subscription, the subscription reported, and the
\* loop exited at the one firing of the timer.
C19_Witness ==
    /\ Len(loops) = 1
    /\ loops[1].pc = "exited"
    /\ firstStop = "started"
    /\ Len(handles) = 1
    /\ handles[1].cancels = 1
    /\ handles[1].st \in {"ended", "errored"}
    /\ timerFires = 1

\* The claimed condition for an entry to be in the output.
Openable(p) ==
    p.served = TRUE /\ p.onOpen # "NOTIFY_PRIVATE" /\ p.onOpen # "IGNORE"

Entries(list) == { list[k] : k \in 1..Len(list) }

\* C14: the output holds exactly the input's entries that are served and whose
\* onOpen is neither NOTIFY_PRIVATE nor IGNORE, as many times as the input
\* holds them: an entry that is not served is left out whatever its action; a
\* served entry with OPEN_BROWSER, OPEN_PREVIEW, NOTIFY or an unrecognized
\* action is in the output.
C14_FilterCorrect ==
    applied =>
      /\ Entries(filtered) = { p \in Entries(ports) : Openable(p) }
      /\ Len(filtered) = Cardinality({ k \in 1..Len(ports) : Openable(ports[k]) })
      /\ \A k \in 1..Len(ports) :
           /\ ~ports[k].served => ports[k] \notin Entries(filtered)
           /\ ( /\ ports[k].served
                /\ ports[k].onOpen \in
                     {"OPEN_BROWSER", "OPEN_PREVIEW", "NOTIFY", "UNRECOGNIZED"} )
                => ports[k] \in Entries(filtered)

\* An entry that is not served, with an action that opens, is left out and a
\* served entry with an unrecognized action is kept.
C14_Witness ==
    /\ applied
    /\ Len(ports) = 2
    /\ ~ports[1].served /\ ports[1].onOpen = "NOTIFY"
    /\ ports[2].served /\ ports[2].onOpen = "UNRECOGNIZED"
    /\ filtered = <<ports[2]>>

\* a can be had from b by deleting entries.
RECURSIVE IsSubsequence(_, _)
IsSubsequence(a, b) ==
    IF a = <<>> THEN TRUE
    ELSE IF b = <<>> THEN FALSE
    ELSE IF Head(a) = Head(b) THEN IsSubsequence(Tail(a), Tail(b))
    ELSE IsSubsequence(a, Tail(b))

\* C15: the output is a subsequence of the input (the kept entries, unchanged
\* and in their input order), and it is what the same snapshot gives when
\* nothing was yielded before: the preceding result has no part in it.
C15_OrderAndStateless ==
    applied =>
      /\ IsSubsequence(filtered, ports)
      /\ filtered = FilterSnapshot(<<>>, ports)

\* Two kept entries in their input order, the first of which the preceding
\* iteration had yielded already.
C15_Witness ==
    /\ applied
    /\ previous # <<>>
    /\ Len(ports) = 2
    /\ ports[1] = previous[1]
    /\ ports[2].onOpen = "NOTIFY"
    /\ filtered = ports

Last(s) == s[Len(s)]

\* The filtered form of a snapshot, as the claims define it.
FilteredForm(list) == SelectSeq(list, Openable)

\* C16: the j-th value a generator yields is the filtered form of the first
\* snapshot its watcher emitted after the j-th pull became outstanding; a pull
\* stays outstanding while no snapshot has arrived since; the snapshots used
\* are taken in arrival order, none twice.
C16_PullSemantics ==
    \A k \in 1..Len(gens) :
      LET g == gens[k]
      IN /\ Len(g.pullAt) =
              Len(g.yielded) + (IF g.pc \in {"awaiting", "resolved"} THEN 1 ELSE 0)
         /\ \A j \in 1..Len(g.yielded) :
              /\ g.pullAt[j] < Len(g.raw)
              /\ g.yielded[j] = FilteredForm(g.raw[g.pullAt[j] + 1])
         /\ \A j \in 1..(Len(g.pullAt) - 1) : g.pullAt[j] < g.pullAt[j + 1]
         /\ g.pc = "awaiting" => Len(g.raw) = Last(g.pullAt)
         /\ g.pc = "resolved" =>
              /\ Len(g.raw) > Last(g.pullAt)
              /\ g.ports = g.raw[Last(g.pullAt) + 1]

\* Two pulls were answered with the filtered forms of two different
\* snapshots.
C16_Witness ==
    /\ Len(gens) = 1
    /\ Len(gens[1].raw) = 2
    /\ Len(gens[1].yielded) = 2
    /\ gens[1].yielded[1] # gens[1].yielded[2]

\* C17 (as claimed): a consumer that keeps pulling ends up holding the
\* filtered form of the latest snapshot its watcher emitted.
C17_LatestObtained ==
    <>[](\A k \in 1..Len(gens) :
           (gens[k].pc # "closed" /\ gens[k].raw # <<>>) =>
              /\ gens[k].yielded # <<>>
              /\ Last(gens[k].yielded) = FilteredForm(Last(gens[k].raw)))

\* C20: the watcher of a generator is never stopped. Its collection keeps
\* both disposables, its run flag stays set, its loop never exits, no
\* subscription is ever cancelled and every firing of a backoff timer issues
\* the next portsStatus call; a pull or the end of the iteration changes no
\* loop and no subscription; every generator started adds one loop and one
\* portsStatus call of its own and leaves the others as they are.
C20_NeverStopped ==
    /\ [](/\ Len(loops) = Len(gens)
          /\ \A k \in 1..Len(gens) :
               /\ gens[k].loop = k
               /\ gens[k].context = <<RemoveListeners, StopLoop(k)>>
               /\ gens[k].listeners = <<1>>
               /\ loops[k].run
               /\ loops[k].pc # "exited"
               /\ loops[k].pc = "awaitStream" => Active(loops[k].evts)
          /\ \A h \in 1..Len(handles) : handles[h].cancels = 0)
    /\ [][ timerFires' # timerFires =>
             portsStatusCalls' = portsStatusCalls + 1 ]_vars
    /\ [][ (\E k \in 1..Len(gens) :
              gens[k].pc = "yielded" /\ gens'[k].pc \in {"awaiting", "closed"})
             => loops' = loops /\ handles' = handles ]_vars
    /\ [][ Len(gens') # Len(gens) =>
             /\ Len(gens') = Len(gens) + 1
             /\ Len(loops') = Len(loops) + 1
             /\ portsStatusCalls' = portsStatusCalls + 1
             /\ \A i \in 1..Len(loops) : loops'[i] = loops[i]
             /\ \A h \in 1..Len(handles) : handles'[h] = handles[h] ]_vars

\* The first generator's iteration was ended and a second generator was
\* started: both watchers hold an open subscription.
C20_Witness ==
    /\ Len(gens) = 2
    /\ gens[1].pc = "closed"
    /\ Len(handles) = 2
    /\ Active(1)
    /\ Active(2)

\* The id of the message a relay step has just handled, and whether the
\* seen-list held it before the step.
HandledId == JSONparse(event'.members).id
WasSeen == \E k \in 1..Len(handledMessages) : handledMessages[k] = HandledId

\* C18: a message whose id is in the seen-list opens no window and leaves the
\* list as it is; a message with an unseen id is appended to the list whatever
\* its action, and opens its url exactly when its action is "openUrl"; empty
\* data (and a text that is no object) changes nothing; so no id is opened
\* twice, every opened id is in the list, and the list only grows.
C18_RelayDedup ==
    /\ [][ relayed' # relayed =>
             /\ (event'.kind = "json" /\ WasSeen) =>
                  UNCHANGED <<handledMessages, windowOpens>>
             /\ (event'.kind = "json" /\ ~WasSeen) =>
                  /\ handledMessages' = Append(handledMessages, HandledId)
                  /\ windowOpens' =
                       IF JSONparse(event'.members).action = "openUrl"
                       THEN Append(windowOpens,
                                   <<HandledId, JSONparse(event'.members).data>>)
                       ELSE windowOpens
             /\ event'.kind # "json" =>
                  UNCHANGED <<handledMessages, windowOpens>>
             /\ Len(handledMessages') >= Len(handledMessages)
             /\ SubSeq(handledMessages', 1, Len(handledMessages)) = handledMessages ]_vars
    /\ [](/\ \A j, k \in 1..Len(windowOpens) :
               windowOpens[j][1] = windowOpens[k][1] => j = k
          /\ \A j \in 1..Len(windowOpens) :
               \E k \in 1..Len(handledMessages) :
                   handledMessages[k] = windowOpens[j][1]
          /\ \A j, k \in 1..Len(handledMessages) :
               handledMessages[j] = handledMessages[k] => j = k)

\* The url of id "a" was opened once; a second "openUrl" message with id "a"
\* has just been handled and opened nothing.
C18_Witness ==
    /\ relayed = 2
    /\ event.kind = "json"
    /\ JSONparse(event.members).id = "a"
    /\ JSONparse(event.members).action = "openUrl"
    /\ handledMessages = <<"a">>
    /\ windowOpens = << <<"a", "url">> >>
====
